---- MODULE Spec2Model ----
(***************************************************************************)
(* LEDA param_types.h: values of an arbitrary type T stored in one         *)
(* pointer-wide data field (GenPtr).  A small type (sizeof(T) <=           *)
(* sizeof(GenPtr)) lives in the bytes of the field itself, a big type in   *)
(* a heap object the field points to.                                      *)
(*                                                                         *)
(* A GenPtr is modelled as its bytes (a sequence of PtrSize bytes), a      *)
(* value of T as its sizeof(T) bytes, memory as a map from addresses to    *)
(* the bytes of the object living there.                                   *)
(***************************************************************************)
EXTENDS Integers, Sequences, FiniteSets

\* ------------------------------------------------------------------ bounds

\* GenPtr data fields (container cells) of the model.
NSlots == 2
\* Cells of the free store.
NHeap == 2
\* Creates and copies made in one behaviour (casts, where casts are followed).
MaxOps == 2

VARIABLES
  build,    \* 32 (WORD_LENGTH_32 defined) or 64
  T,        \* the type parameter of the call sites
  slot,     \* slot[s]: the bytes of the GenPtr data field s
  mem,      \* mem[a]: the bytes of the object at address a, or Free
  gh,       \* gh[s]: what the caller knows of s (liveness, the value it put)
  own,      \* own[o]: the value the caller gave its own object at address o
  cnt,      \* instrumentation: allocations, deallocations, ctor and dtor calls
  castOut,  \* the last leda_cast: its case, its result, what it allocated
  cmpfn,    \* leda_cmp_base::cmp, 0 (Null) when none is configured
  cmpOut,   \* the last comparison made: arguments, function called, result
  errlog,   \* the messages passed to error_handler
  halted    \* the program has been terminated

vars == <<build, T, slot, mem, gh, own, cnt, castOut, cmpfn, cmpOut, errlog, halted>>

\* ------------------------------------------------------------------- types

Scalars == {"char", "short", "int", "long", "float", "double"}
\* Classes with a counting constructor and destructor, one byte smaller than,
\* as large as, and one byte larger than a pointer; long long is a scalar that
\* is big on the 32-bit build and has no specialization.
Classes == {"UserLess", "UserEq", "UserGreater"}
Types == Scalars \cup {"longlong"} \cup Classes

PtrSize == IF build = 32 THEN 4 ELSE 8

SizeOf(tp) ==
  CASE tp = "char"        -> 1
    [] tp = "short"       -> 2
    [] tp = "int"         -> 4
    [] tp = "long"        -> IF build = 32 THEN 4 ELSE 8
    [] tp = "float"       -> 4
    [] tp = "double"      -> 8
    [] tp = "longlong"    -> 8
    [] tp = "UserLess"    -> PtrSize - 1
    [] tp = "UserEq"      -> PtrSize
    [] tp = "UserGreater" -> PtrSize + 1

IsFloat(tp) == tp \in {"float", "double"}
IsClass(tp) == tp \in Classes

\* The bytes b repeated n times, with byte i set to c.
Bytes(n, b) == [i \in 1..n |-> b]
BytesWith(n, b, i, c) == [k \in 1..n |-> IF k = i THEN c ELSE b]

Zero(tp) == Bytes(SizeOf(tp), 0)

\* The values of tp the model draws inputs from.  Integers: 0, 1, -1 (two's
\* complement).  Floating point: +0.0, -0.0, a positive and a negative number
\* (sign bit and exponent in the last byte).  Classes: a key in the first byte
\* and a payload in the last one.
Samples(tp) ==
  LET n == SizeOf(tp) IN
  IF IsFloat(tp)
    THEN {Zero(tp), BytesWith(n, 0, n, 128), BytesWith(n, 0, n, 63),
          BytesWith(n, 0, n, 191)}
  ELSE IF IsClass(tp)
    THEN {BytesWith(n, 0, 1, 1), [k \in 1..n |-> IF k \in {1, n} THEN 1 ELSE 0],
          BytesWith(n, 0, 1, 2)}
  ELSE {Zero(tp), BytesWith(n, 0, 1, 1), Bytes(n, 255)}

\* T(): value-initialization.  A scalar is zeroed, a class runs its default
\* constructor (which sets key 1, payload 0).
ValueInit(tp) == IF IsClass(tp) THEN BytesWith(SizeOf(tp), 0, 1, 1) ELSE Zero(tp)

\* new T: default-initialization.  A class runs its default constructor, a
\* scalar is left indeterminate (junk is any value of the type).
DefaultInit(tp, junk) == IF IsClass(tp) THEN ValueInit(tp) ELSE junk

\* Constructor (destructor) calls one construction (destruction) of a tp makes.
CtorCalls(tp) == IF IsClass(tp) THEN 1 ELSE 0

\* ------------------------------------------------------------------ memory

Free == <<>>
\* The caller's own object x lives at address 1, the free store above it.
ObjAddrs == {1}
HeapAddrs == 2..(1 + NHeap)
Addrs == ObjAddrs \cup HeapAddrs

NullWord == Bytes(PtrSize, 0)
\* GenPtr(a): the bytes of the pointer to address a.
AddrWord(a) == BytesWith(PtrSize, 0, 1, a)
\* (T*)p: the address a pointer's bytes denote (-1: no address of the model).
WordAddr(p) == IF \A i \in 2..PtrSize : p[i] = 0 THEN p[1] ELSE -1

\* Memory with v stored at address a.
Store(a, v) == IF a \in DOMAIN mem THEN [mem EXCEPT ![a] = v] ELSE mem

\* Whether a live object of type tp is at address a.
Valid(tp, a) == a \in Addrs /\ mem[a] # Free /\ Len(mem[a]) = SizeOf(tp)

\* ------------------------------------------------------ size-class dispatch

\* Mutant: the overloads for double are left out of the build.
no_double_spec(tp) == FALSE

\* #if defined(WORD_LENGTH_32): the overloads for double are compiled in, and
\* overload resolution prefers them to the templates when T is double.
use_double_spec(tp) == build = 32 /\ tp = "double"

\* The test each template makes to pick the in-place strategy.
create_in_place(tp) == SizeOf(tp) <= PtrSize
\* Mutant: leda_copy never takes the in-place branch.
copy_in_place_never(tp) == FALSE
copy_in_place(tp) == SizeOf(tp) <= PtrSize
\* Mutant: leda_clear tests < where the others test <=.
clear_in_place_lt(tp) == SizeOf(tp) < PtrSize
clear_in_place(tp) == SizeOf(tp) <= PtrSize
access_in_place(tp) == SizeOf(tp) <= PtrSize
\* Mutant: leda_const_access tests < where the others test <=.
const_access_in_place_lt(tp) == SizeOf(tp) < PtrSize
const_access_in_place(tp) == SizeOf(tp) <= PtrSize

\* -------------------------------------------------------------- references

\* A T& is the place it refers to: the bytes of a GenPtr data field s, or the
\* object at an address a.
SlotRef(s) == [at |-> "slot", s |-> s, a |-> 0]
MemRef(a) == [at |-> "mem", s |-> 0, a |-> a]

\* The T read through a reference.  Reading past the end of a data field, or
\* an address where no T lives, is undefined: junk is what comes back.
ReadRef(tp, x, junk) ==
  IF x.at = "slot"
    THEN IF SizeOf(tp) <= PtrSize THEN SubSeq(slot[x.s], 1, SizeOf(tp)) ELSE junk
    ELSE IF Valid(tp, x.a) THEN mem[x.a] ELSE junk

\* The T written into the first sizeof(T) bytes of the data field p (bytes
\* that do not fit are lost).
Overlay(p, v) == [i \in 1..PtrSize |-> IF i <= Len(v) THEN v[i] ELSE p[i]]

\* ---------------------------------------------------- lifecycle operations

\* What an operation returns and does: the GenPtr p it returns, the memory it
\* leaves, and the allocator and constructor calls it made.
Eff(p, m, alloc, free, ctor, dtor) ==
  [p |-> p, mem |-> m, alloc |-> alloc, free |-> free, ctor |-> ctor, dtor |-> dtor,
   crash |-> FALSE, err |-> <<>>, tag |-> "none"]

\* new (p) T()
in_place_create(p, tp) == Overlay(p, ValueInit(tp))

\* leda_create(const T*): a is the address operator new returns, junk the
\* indeterminate value of a default-initialized scalar.
leda_create(tp, a, junk) ==
  IF create_in_place(tp)
    THEN Eff(in_place_create(NullWord, tp), mem, 0, 0, CtorCalls(tp), 0)
    ELSE Eff(AddrWord(a), Store(a, DefaultInit(tp, junk)),
             1, 0, CtorCalls(tp), 0)

\* leda_create(const double*), 32-bit build: std_memory.allocate_bytes
\* returns a, and 0 is stored there.
leda_create_double(a) ==
  Eff(AddrWord(a), Store(a, Zero("double")), 1, 0, 0, 0)

\* new (p) T(x)
in_place_copy(p, xv) == Overlay(p, xv)

\* Mutant: the big branch stores the address of x instead of a copy of x.
leda_copy_shallow(tp, x, xv, a) ==
  IF copy_in_place(tp)
    THEN Eff(in_place_copy(NullWord, xv), mem, 0, 0, CtorCalls(tp), 0)
  ELSE IF x.at = "mem"
    THEN Eff(AddrWord(x.a), mem, 0, 0, 0, 0)
  ELSE Eff(AddrWord(a), Store(a, xv), 1, 0, CtorCalls(tp), 0)

\* leda_copy(const T& x): xv is the value read from x, a the address operator
\* new returns.
leda_copy(tp, x, xv, a) ==
  IF copy_in_place(tp)
    THEN Eff(in_place_copy(NullWord, xv), mem, 0, 0, CtorCalls(tp), 0)
    ELSE Eff(AddrWord(a), Store(a, xv), 1, 0, CtorCalls(tp), 0)

\* leda_copy(const double& x), 32-bit build.
leda_copy_double(xv, a) ==
  Eff(AddrWord(a), Store(a, xv), 1, 0, 0, 0)

\* leda_access(const T*, GenPtr& p): the T& it returns, p being the bytes of
\* the data field s.
leda_access(tp, p, s) ==
  IF access_in_place(tp) THEN SlotRef(s) ELSE MemRef(WordAddr(p))

\* leda_const_access(const T*, const GenPtr& p)
leda_const_access(tp, p, s) ==
  IF const_access_in_place(tp) THEN SlotRef(s) ELSE MemRef(WordAddr(p))

\* leda_access / leda_const_access(const double*, ...), 32-bit build.
leda_access_double(p) == MemRef(WordAddr(p))
leda_const_access_double(p) == MemRef(WordAddr(p))

\* Releasing the storage at &x, for delete and deallocate_bytes: a live heap
\* object is released; a null pointer is ignored; anything else is undefined,
\* and the program is killed (ub = "crash") or goes on (ub = "none").
Release(tp, x, dtor, ub) ==
  IF x.at = "mem" /\ x.a \in HeapAddrs /\ Valid(tp, x.a)
    THEN Eff(NullWord, Store(x.a, Free), 0, 1, 0, dtor)
  ELSE IF x.at = "mem" /\ x.a = 0
    THEN Eff(NullWord, mem, 0, 0, 0, 0)
  ELSE [Eff(NullWord, mem, 0, 1, 0, dtor) EXCEPT !.crash = (ub = "crash")]

\* Mutant: the in-place branch forgets the explicit destructor call.
leda_clear_no_dtor(tp, x, ub) ==
  IF clear_in_place(tp)
    THEN Eff(NullWord, mem, 0, 0, 0, 0)
    ELSE Release(tp, x, CtorCalls(tp), ub)

\* Mutant: the big branch reports a null pointer to error_handler.
leda_clear_checked(tp, x, ub) ==
  IF clear_in_place(tp)
    THEN Eff(NullWord, mem, 0, 0, 0, CtorCalls(tp))
  ELSE IF x.at = "mem" /\ x.a = 0
    THEN [Eff(NullWord, mem, 0, 0, 0, 0) EXCEPT !.err = <<"undefined operation: clear">>]
  ELSE Release(tp, x, CtorCalls(tp), ub)

\* leda_clear(T& x)
leda_clear(tp, x, ub) ==
  IF clear_in_place(tp)
    THEN Eff(NullWord, mem, 0, 0, 0, CtorCalls(tp))
    ELSE Release(tp, x, CtorCalls(tp), ub)

\* leda_clear(double& x), 32-bit build: std_memory.deallocate_bytes.
leda_clear_double(x, ub) == Release("double", x, 0, ub)

\* Mutant: the first test is >=, so a pointer-sized T yields its address.
leda_cast_ge(tp, x, xv, a) ==
  IF SizeOf(tp) >= PtrSize
    THEN [Eff(AddrWord(x.a), mem, 0, 0, 0, 0) EXCEPT !.tag = "gt"]
  ELSE [leda_copy(tp, x, xv, a) EXCEPT !.tag = "lt"]

\* leda_cast(const T& x): x is the reference, xv the value read from it, a
\* the address operator new returns should the copy allocate.  tag names the
\* branch taken.
leda_cast(tp, x, xv, a) ==
  IF SizeOf(tp) > PtrSize
    THEN [Eff(AddrWord(x.a), mem, 0, 0, 0, 0) EXCEPT !.tag = "gt"]
  ELSE IF SizeOf(tp) = PtrSize
    THEN [Eff(xv, mem, 0, 0, 0, 0) EXCEPT !.tag = "eq"]
  ELSE [leda_copy(tp, x, xv, a) EXCEPT !.tag = "lt"]

\* leda_cast(const double& x), 32-bit build.
leda_cast_double(x) == [Eff(AddrWord(x.a), mem, 0, 0, 0, 0) EXCEPT !.tag = "gt"]

\* ------------------------------------------------------------------ macros

\* The call each macro expands to, after overload resolution.
LEDA_ACCESS(tp, p, s) ==
  IF use_double_spec(tp) THEN leda_access_double(p) ELSE leda_access(tp, p, s)

LEDA_CONST_ACCESS(tp, p, s) ==
  IF use_double_spec(tp) THEN leda_const_access_double(p)
                         ELSE leda_const_access(tp, p, s)

LEDA_CREATE(tp, a, junk) ==
  IF use_double_spec(tp) THEN leda_create_double(a) ELSE leda_create(tp, a, junk)

\* leda_copy(x), xv being the value read from x.
CopyOf(tp, x, xv, a) ==
  IF use_double_spec(tp) THEN leda_copy_double(xv, a) ELSE leda_copy(tp, x, xv, a)

\* LEDA_COPY(T,x): x = leda_copy(LEDA_CONST_ACCESS(T,x)), for the data field s.
LEDA_COPY(tp, s, a, junk) ==
  LET x == LEDA_CONST_ACCESS(tp, slot[s], s) IN CopyOf(tp, x, ReadRef(tp, x, junk), a)

\* LEDA_CLEAR(T,x): leda_clear(LEDA_ACCESS(T,x)), for the data field s
\* holding the bytes p.
LEDA_CLEAR(tp, p, s, ub) ==
  IF use_double_spec(tp) THEN leda_clear_double(LEDA_ACCESS(tp, p, s), ub)
                         ELSE leda_clear(tp, LEDA_ACCESS(tp, p, s), ub)

LEDA_CAST(tp, x, xv, a) ==
  IF use_double_spec(tp) THEN leda_cast_double(x) ELSE leda_cast(tp, x, xv, a)

\* LEDA_ACCESS(T,x) = v, x holding the bytes p: the data fields and the
\* memory after the assignment.  Writing where no T lives is undefined: the
\* program is killed or goes on.
WriteRef(tp, x, p, v, ub) ==
  IF x.at = "slot"
    THEN [slot |-> [slot EXCEPT ![x.s] = Overlay(p, v)], mem |-> mem, crash |-> FALSE]
  ELSE IF Valid(tp, x.a)
    THEN [slot |-> slot, mem |-> Store(x.a, v), crash |-> FALSE]
  ELSE [slot |-> slot, mem |-> mem, crash |-> (ub = "crash")]

\* ------------------------------------------------------------------- state

Slots == 1..NSlots
Null == "null"
UB == {"crash", "none"}

NoGhost == [st |-> "uninit", origin |-> "none", made |-> "none", freed |-> "none",
            val |-> <<>>]
NoCast == [kase |-> "none", p |-> <<>>, x |-> 0, xv |-> <<>>, alloc |-> 0, ctor |-> 0]
NoCmp == [op |-> "none", x |-> <<>>, y |-> <<>>, called |-> "none", has |-> FALSE,
          res |-> 0, lt |-> FALSE]

FreeCells == {a \in HeapAddrs : mem[a] = Free}

\* The allocator hands out a free cell when, and only when, it is asked.
AllocOk(r, a) == IF r.alloc = 0 THEN a = 0 ELSE a \in FreeCells

Count(r, kind) ==
  [cnt EXCEPT !.alloc = @ + r.alloc, !.free = @ + r.free, !.ctor = @ + r.ctor,
              !.dtor = @ + r.dtor, ![kind] = @ + 1]

Strategy(r) == IF r.alloc = 0 THEN "inplace" ELSE "heap"

\* The T a create left: in the bytes of the GenPtr, or where it points.
Made(tp, r) ==
  IF r.alloc = 0 THEN SubSeq(r.p, 1, SizeOf(tp)) ELSE r.mem[WordAddr(r.p)]

InitCommon ==
  /\ build \in {32, 64}
  /\ T \in Types
  /\ slot = [s \in Slots |-> NullWord]
  /\ \E v \in Samples(T) :
       /\ mem = [a \in Addrs |-> IF a \in ObjAddrs THEN v ELSE Free]
       /\ own = [o \in ObjAddrs |-> v]
  /\ gh = [s \in Slots |-> NoGhost]
  /\ cnt = [alloc |-> 0, free |-> 0, ctor |-> 0, dtor |-> 0,
            make |-> 0, clear |-> 0, cast |-> 0, misuse |-> 0]
  /\ castOut = NoCast
  /\ cmpOut = NoCmp
  /\ errlog = <<>>
  /\ halted = FALSE

Init == InitCommon /\ cmpfn = Null

Unused == UNCHANGED <<build, T, cmpfn, cmpOut>>
Caller == UNCHANGED own

\* What an operation reported to error_handler (which ends the program), and
\* whether undefined behaviour killed the program.
Report(r) ==
  /\ errlog' = errlog \o r.err
  /\ halted' = (r.crash \/ r.err # <<>>)

\* The program has not ended, and nothing undefined has happened: a behaviour
\* is followed up to its first misuse, as what the program does after
\* undefined behaviour means nothing.
Running == ~halted /\ cnt.misuse = 0

\* LEDA_CREATE(T, slot[s]) on a data field that holds no value.
Create(s) ==
  /\ Running
  /\ gh[s].st # "live"
  /\ cnt.make < MaxOps
  /\ \E a \in FreeCells \cup {0} :
     \E r \in {LEDA_CREATE(T, a, junk) : junk \in Samples(T)} :
       /\ AllocOk(r, a)
       /\ slot' = [slot EXCEPT ![s] = r.p]
       /\ mem' = r.mem
       /\ gh' = [gh EXCEPT ![s] = [st |-> "live", origin |-> "create",
                                   made |-> Strategy(r), freed |-> "none",
                                   val |-> Made(T, r)]]
       /\ cnt' = Count(r, "make")
       /\ Report(r)
  /\ UNCHANGED castOut
  /\ Unused /\ Caller

\* slot[s] = leda_copy(x) for the caller's object x at address o.
CopyObj(s, o) ==
  /\ Running
  /\ gh[s].st # "live"
  /\ cnt.make < MaxOps
  /\ \E a \in FreeCells \cup {0} :
       LET r == CopyOf(T, MemRef(o), mem[o], a) IN
       /\ AllocOk(r, a)
       /\ slot' = [slot EXCEPT ![s] = r.p]
       /\ mem' = r.mem
       /\ gh' = [gh EXCEPT ![s] = [st |-> "live", origin |-> "copy",
                                   made |-> Strategy(r), freed |-> "none",
                                   val |-> mem[o]]]
       /\ cnt' = Count(r, "make")
       /\ Report(r)
  /\ UNCHANGED castOut
  /\ Unused /\ Caller

\* A container copy: slot[s] = slot[t] bit by bit, then LEDA_COPY(T, slot[s]).
\* After the bitwise copy LEDA_CONST_ACCESS reads from slot[s] what it reads
\* from slot[t].
CopySlot(s, t) ==
  /\ Running
  /\ s # t
  /\ gh[s].st # "live"
  /\ gh[t].st = "live"
  /\ cnt.make < MaxOps
  /\ \E a \in FreeCells \cup {0} :
     \E c \in {[r |-> LEDA_COPY(T, t, a, junk),
                xv |-> ReadRef(T, LEDA_CONST_ACCESS(T, slot[t], t), junk)] :
               junk \in Samples(T)} :
       LET r == c.r IN
       /\ AllocOk(r, a)
       /\ slot' = [slot EXCEPT ![s] = r.p]
       /\ mem' = r.mem
       /\ gh' = [gh EXCEPT ![s] = [st |-> "live", origin |-> "copy",
                                   made |-> Strategy(r), freed |-> "none",
                                   val |-> c.xv]]
       /\ cnt' = Count(r, "make")
       /\ Report(r)
  /\ UNCHANGED castOut
  /\ Unused /\ Caller

\* LEDA_ACCESS(T, slot[s]) = v on a live data field.
Assign(s, v) ==
  /\ Running
  /\ gh[s].st = "live"
  /\ \E w \in {WriteRef(T, LEDA_ACCESS(T, slot[s], s), slot[s], v, ub) : ub \in UB} :
       /\ slot' = w.slot
       /\ mem' = w.mem
       /\ halted' = w.crash
  /\ gh' = [gh EXCEPT ![s].origin = "written", ![s].val = v]
  /\ UNCHANGED <<cnt, castOut, errlog>>
  /\ Unused /\ Caller

\* The caller assigns v to its own object at address o.
AssignObj(o, v) ==
  /\ Running
  /\ mem' = [mem EXCEPT ![o] = v]
  /\ own' = [own EXCEPT ![o] = v]
  /\ UNCHANGED <<slot, gh, cnt, castOut, halted, errlog>>
  /\ Unused

\* LEDA_CLEAR(T, slot[s]) on a live data field.
Clear(s) ==
  /\ Running
  /\ gh[s].st = "live"
  /\ \E r \in {LEDA_CLEAR(T, slot[s], s, ub) : ub \in UB} :
       /\ mem' = r.mem
       /\ Report(r)
       /\ gh' = [gh EXCEPT ![s].st = "cleared", ![s].origin = "none",
                           ![s].val = <<>>,
                           ![s].freed = IF r.free = 0 THEN "inplace" ELSE "heap"]
       /\ cnt' = Count(r, "clear")
  /\ UNCHANGED <<slot, castOut>>
  /\ Unused /\ Caller

\* LEDA_CAST(x) for the caller's object x at address o.
Cast(o) ==
  /\ Running
  /\ cnt.cast < MaxOps
  /\ \E a \in FreeCells \cup {0} :
       LET r == LEDA_CAST(T, MemRef(o), mem[o], a) IN
       /\ AllocOk(r, a)
       /\ mem' = r.mem
       /\ castOut' = [kase |-> r.tag, p |-> r.p, x |-> o, xv |-> mem[o],
                      alloc |-> r.alloc, ctor |-> r.ctor]
       /\ cnt' = Count(r, "cast")
       /\ Report(r)
  /\ UNCHANGED <<slot, gh>>
  /\ Unused /\ Caller

\* -------------------------------------------------------------- comparison

\* Unsigned comparison of two byte strings, last byte most significant.
ULess(x, y) ==
  \E i \in 1..Len(x) : x[i] < y[i] /\ \A j \in (i + 1)..Len(x) : x[j] = y[j]

Negative(x) == x[Len(x)] >= 128
Magnitude(x) == [x EXCEPT ![Len(x)] = @ % 128]
IsZero(x) == \A i \in 1..Len(x) : Magnitude(x)[i] = 0

\* x < y of the type: two's complement for the integers, sign and magnitude
\* for floating point (-0.0 and +0.0 are equivalent), the key alone for the
\* classes (values with equal keys are equivalent).
Less(tp, x, y) ==
  IF IsClass(tp) THEN x[1] < y[1]
  ELSE IF IsFloat(tp)
    THEN /\ ~(IsZero(x) /\ IsZero(y))
         /\ IF Negative(x) # Negative(y) THEN Negative(x)
            ELSE IF Negative(x) THEN ULess(Magnitude(y), Magnitude(x))
            ELSE ULess(Magnitude(x), Magnitude(y))
  ELSE IF Negative(x) # Negative(y) THEN Negative(x) ELSE ULess(x, y)

\* Mutant: the second test repeats the first.
compare_same_test(tp, x, y) ==
  IF Less(tp, x, y) THEN -1
  ELSE IF Less(tp, x, y) THEN 1
  ELSE 0

\* compare(const T& x, const T& y)
compare(tp, x, y) ==
  IF Less(tp, x, y) THEN -1
  ELSE IF Less(tp, y, x) THEN 1
  ELSE 0

\* smaller_default<T>::operator()
smaller_default(tp, x, y) == compare(tp, x, y) < 0

\* The comparison functions a leda_cmp_base is constructed with: none, compare
\* itself, or the reverse order.
CmpFns == {Null, "compare", "reverse"}

\* cmp(x,y) for a configured function.
CallFn(f, tp, x, y) == IF f = "reverse" THEN compare(tp, y, x) ELSE compare(tp, x, y)

\* error_handler(err_no, msg): the message is reported, and a non-zero err_no
\* ends the program.
error_handler(err_no, msg) == [log |-> Append(errlog, msg), halt |-> err_no # 0]

\* Mutant: the test for a null cmp is missing.
cmp_never_undefined == FALSE

\* The test of leda_cmp_base::operator() for "no function configured".
cmp_undefined == cmpfn = Null

\* leda_cmp_base<T>::operator()(x, y).  Calling through the null pointer after
\* an error_handler that returned is undefined: the program is killed, or some
\* int r comes back.
leda_cmp_base_call(tp, x, y, ub, r) ==
  LET e == IF cmp_undefined
             THEN error_handler(1, "leda_cmp_base: compare undefined")
             ELSE [log |-> errlog, halt |-> FALSE]
  IN IF e.halt
       THEN [called |-> "none", has |-> FALSE, res |-> 0, log |-> e.log, halt |-> TRUE]
     ELSE IF cmpfn = Null
       THEN [called |-> Null, has |-> ub # "crash", res |-> r, log |-> e.log,
             halt |-> ub = "crash"]
     ELSE [called |-> cmpfn, has |-> TRUE, res |-> CallFn(cmpfn, tp, x, y),
           log |-> e.log, halt |-> FALSE]

InitCmp == InitCommon /\ cmpfn \in CmpFns

Lifecycle == UNCHANGED <<build, T, slot, mem, gh, own, cnt, castOut, cmpfn>>

\* compare(x, y) on two values of T.
Compare(x, y) ==
  /\ Running
  /\ cmpOut' = [NoCmp EXCEPT !.op = "compare", !.x = x, !.y = y, !.has = TRUE,
                             !.called = "compare", !.res = compare(T, x, y)]
  /\ UNCHANGED <<errlog, halted>>
  /\ Lifecycle

\* smaller_default<T>()(x, y)
SmallerDefault(x, y) ==
  /\ Running
  /\ cmpOut' = [NoCmp EXCEPT !.op = "smaller", !.x = x, !.y = y, !.has = TRUE,
                             !.called = "compare", !.lt = smaller_default(T, x, y)]
  /\ UNCHANGED <<errlog, halted>>
  /\ Lifecycle

\* leda_cmp_base<T>(cmpfn)(x, y)
CmpBase(x, y) ==
  /\ Running
  /\ \E c \in {leda_cmp_base_call(T, x, y, ub, r) : ub \in UB, r \in {-1, 0, 1}} :
       /\ cmpOut' = [NoCmp EXCEPT !.op = "cmp_base", !.x = x, !.y = y,
                                  !.has = c.has, !.called = c.called, !.res = c.res]
       /\ errlog' = c.log
       /\ halted' = c.halt
  /\ Lifecycle

NextCmp ==
  \/ \E x, y \in Samples(T) : Compare(x, y)
  \/ \E x, y \in Samples(T) : SmallerDefault(x, y)
  \/ \E x, y \in Samples(T) : CmpBase(x, y)

SpecCmp == InitCmp /\ [][NextCmp]_vars

Next ==
  \/ \E s \in Slots : Create(s)
  \/ \E s \in Slots, o \in ObjAddrs : CopyObj(s, o)
  \/ \E s, t \in Slots : CopySlot(s, t)
  \/ \E s \in Slots, v \in Samples(T) : Assign(s, v)
  \/ \E o \in ObjAddrs, v \in Samples(T) : AssignObj(o, v)
  \/ \E s \in Slots : Clear(s)

Spec == Init /\ [][Next]_vars

\* leda_cast touches no data field: it is followed on its own, the caller
\* assigning to x between the casts.
NextCast ==
  \/ \E o \in ObjAddrs : Cast(o)
  \/ \E o \in ObjAddrs, v \in Samples(T) : AssignObj(o, v)

SpecCast == Init /\ [][NextCast]_vars


\* ------------------------------------------------------------------ misuse

\* The bytes an uninitialized data field may hold, and what a data field that
\* holds no value holds when it is misused: a cleared one still has the bytes
\* it had, an uninitialized one whatever was left in its storage.
GarbageWords == {NullWord} \cup {AddrWord(a) : a \in Addrs}
DeadWords(s) == IF gh[s].st = "uninit" THEN GarbageWords ELSE {slot[s]}

\* LEDA_CLEAR(T, slot[s]) on a data field that holds no value.
ClearDead(s) ==
  /\ Running
  /\ \E p \in DeadWords(s) :
     \E r \in {LEDA_CLEAR(T, p, s, ub) : ub \in UB} :
       /\ slot' = [slot EXCEPT ![s] = p]
       /\ mem' = r.mem
       /\ Report(r)
       /\ cnt' = [Count(r, "clear") EXCEPT !.misuse = @ + 1]
  /\ gh' = [gh EXCEPT ![s].st = "cleared"]
  /\ UNCHANGED castOut
  /\ Unused /\ Caller

\* LEDA_CLEAR on a data field that was never initialized.
ClearUninit(s) ==
  /\ gh[s].st = "uninit"
  /\ ClearDead(s)

\* LEDA_CLEAR on a data field that was cleared already.
ClearTwice(s) ==
  /\ gh[s].st = "cleared"
  /\ ClearDead(s)

\* A read of LEDA_ACCESS(T, slot[s]) on a data field that holds no value:
\* the bytes of the data field are read, or the object its bytes point to;
\* where no T lives the program is killed or reads junk and goes on.
AccessDead(s) ==
  /\ Running
  /\ gh[s].st # "live"
  /\ \E p \in DeadWords(s) :
       LET x == LEDA_ACCESS(T, p, s) IN
       /\ slot' = [slot EXCEPT ![s] = p]
       /\ halted' \in (IF x.at = "slot" \/ Valid(T, x.a) THEN {FALSE} ELSE BOOLEAN)
  /\ cnt' = [cnt EXCEPT !.misuse = @ + 1]
  /\ UNCHANGED <<mem, gh, castOut, errlog>>
  /\ Unused /\ Caller

NextMisuse ==
  \/ Next
  \/ \E s \in Slots : ClearUninit(s)
  \/ \E s \in Slots : ClearTwice(s)
  \/ \E s \in Slots : AccessDead(s)

SpecMisuse == Init /\ [][NextMisuse]_vars

\* ------------------------------------------------------------------ claims

Live(s) == gh[s].st = "live"
LiveSlots == {s \in Slots : Live(s)}
HeapObjects == {a \in HeapAddrs : mem[a] # Free}
IsSmall(tp) == SizeOf(tp) <= PtrSize

\* The value LEDA_ACCESS (LEDA_CONST_ACCESS) reads from the data field s.
Rd(s, junk) == ReadRef(T, LEDA_ACCESS(T, slot[s], s), junk)
RdConst(s, junk) == ReadRef(T, LEDA_CONST_ACCESS(T, slot[s], s), junk)

\* C1: create, copy, clear, access and const_access pick the same strategy
\* for T: a live data field was made in place exactly when sizeof(T) <=
\* pointer size (the boundary included), access and const_access treat it the
\* way it was made, and a cleared one was freed the way it was made.
C1_SameStrategy ==
  \A s \in Slots :
    /\ Live(s) =>
         /\ (gh[s].made = "inplace") = IsSmall(T)
         /\ (LEDA_ACCESS(T, slot[s], s).at = "slot") = (gh[s].made = "inplace")
         /\ (LEDA_CONST_ACCESS(T, slot[s], s).at = "slot") = (gh[s].made = "inplace")
    /\ gh[s].st = "cleared" => gh[s].freed = gh[s].made

\* A type as large as a pointer was made in place and cleared in place.
C1_Witness ==
  \E s \in Slots :
    /\ SizeOf(T) = PtrSize
    /\ gh[s].st = "cleared"
    /\ gh[s].made = "inplace"
    /\ gh[s].freed = "inplace"

\* C2: copy round trip: as long as the data field made by copy(v) is live,
\* access and const_access both read v from it.
C2_CopyRoundTrip ==
  \A s \in Slots :
    Live(s) /\ gh[s].origin = "copy" =>
      \A junk \in Samples(T) :
        /\ Rd(s, junk) = gh[s].val
        /\ RdConst(s, junk) = gh[s].val

\* A big type: the copy of a non-zero value is live while another data field
\* has been cleared.
C2_Witness ==
  \E s, t \in Slots :
    /\ Live(s) /\ gh[s].origin = "copy" /\ gh[s].val # Zero(T)
    /\ gh[t].st = "cleared"
    /\ ~IsSmall(T)

\* C3: for the scalars char, short, int, long, float and double, on both
\* builds, access reads the zero of T from a data field made by create.
C3_CreateZero ==
  T \in Scalars =>
    \A s \in Slots :
      Live(s) /\ gh[s].origin = "create" =>
        \A junk \in Samples(T) : Rd(s, junk) = Zero(T)

\* A double was created on the 32-bit build, where it is a big type.
C3_Witness ==
  \E s \in Slots :
    /\ T = "double" /\ build = 32
    /\ Live(s) /\ gh[s].origin = "create"
    /\ gh[s].made = "heap"

\* C4: a small type never allocates or deallocates; a big type allocates once
\* per create and copy and deallocates once per clear, the object of the
\* cleared data field, so the heap objects are those of the live data fields,
\* one each.
C4_HeapUse ==
  IF IsSmall(T)
    THEN cnt.alloc = 0 /\ cnt.free = 0 /\ HeapObjects = {}
    ELSE /\ cnt.alloc = cnt.make
         /\ cnt.free = cnt.clear
         /\ HeapObjects = {WordAddr(slot[s]) : s \in LiveSlots}
         /\ Cardinality(HeapObjects) = Cardinality(LiveSlots)
         /\ cnt.alloc - cnt.free = Cardinality(LiveSlots)

\* A big type after two allocations and one deallocation.
C4_Witness ==
  /\ ~IsSmall(T)
  /\ cnt.alloc = 2 /\ cnt.free = 1
  /\ Cardinality(LiveSlots) = 1

\* C5: every create and copy constructs one T and every clear destroys one, so
\* once every data field made has been cleared the constructor and destructor
\* calls are equal.
C5_CtorDtorBalance ==
  /\ cnt.ctor = CtorCalls(T) * cnt.make
  /\ cnt.dtor = CtorCalls(T) * cnt.clear
  /\ LiveSlots = {} => cnt.ctor = cnt.dtor

\* Two objects of a class were constructed and destroyed, for a small class.
C5_Witness ==
  /\ IsClass(T) /\ IsSmall(T)
  /\ LiveSlots = {}
  /\ cnt.ctor = 2 /\ cnt.dtor = 2

\* C6: data fields never alias.  For a big T two live data fields never hold
\* the same pointer, nor the address of the caller's object; whatever was done
\* to the other data fields and to the caller's object since, a live data
\* field reads the value last put in it and the caller's object has the value
\* the caller gave it.
C6_NoAlias ==
  /\ ~IsSmall(T) =>
       \A s \in LiveSlots :
         /\ WordAddr(slot[s]) \notin ObjAddrs
         /\ \A t \in LiveSlots : s # t => WordAddr(slot[s]) # WordAddr(slot[t])
  /\ \A s \in LiveSlots : \A junk \in Samples(T) : Rd(s, junk) = gh[s].val
  /\ \A o \in ObjAddrs : mem[o] = own[o]

\* Two live data fields of a big type hold different values, one of them
\* written through access after it was copied.
C6_Witness ==
  \E s, t \in Slots :
    /\ ~IsSmall(T)
    /\ Live(s) /\ Live(t)
    /\ gh[s].origin = "written" /\ gh[t].origin = "copy"
    /\ gh[s].val # gh[t].val
    /\ gh[t].val # mem[1]

\* What all three cases of cast have in common in the claim and in the code:
\* a T larger than a pointer yields the address of x, a T as large as a
\* pointer the bits of x, neither constructing nor allocating.
CastAddressOrBits ==
  /\ SizeOf(T) > PtrSize =>
       /\ castOut.p = AddrWord(castOut.x)
       /\ castOut.alloc = 0 /\ castOut.ctor = 0
  /\ SizeOf(T) = PtrSize =>
       /\ castOut.p = castOut.xv
       /\ castOut.alloc = 0 /\ castOut.ctor = 0

\* C7 as stated: for a T smaller than a pointer cast is a copy that allocates.
C7_Original ==
  castOut.kase # "none" =>
    /\ CastAddressOrBits
    /\ SizeOf(T) < PtrSize => castOut.alloc > 0

\* C7 as amended: for a T smaller than a pointer cast is leda_copy(x), which
\* copy-constructs x into the bytes of the GenPtr it returns and, like the
\* other two cases, allocates nothing.
C7_Amended ==
  castOut.kase # "none" =>
    /\ CastAddressOrBits
    /\ SizeOf(T) < PtrSize =>
         /\ castOut.p = Overlay(NullWord, castOut.xv)
         /\ castOut.alloc = 0
         /\ castOut.ctor = CtorCalls(T)

\* A class smaller than a pointer was cast: one construction, no allocation.
C7_Witness ==
  /\ castOut.kase = "lt"
  /\ IsClass(T)
  /\ castOut.ctor = 1 /\ castOut.alloc = 0

\* C8: compare(x,y) is -1 if x<y, +1 if y<x and 0 otherwise, so it changes
\* sign when its arguments are swapped and is 0 on equal arguments, and
\* smaller_default is true exactly when x<y.
C8_Compare ==
  /\ cmpOut.op = "compare" =>
       /\ Less(T, cmpOut.x, cmpOut.y) => cmpOut.res = -1
       /\ Less(T, cmpOut.y, cmpOut.x) => cmpOut.res = 1
       /\ ~Less(T, cmpOut.x, cmpOut.y) /\ ~Less(T, cmpOut.y, cmpOut.x) => cmpOut.res = 0
       /\ cmpOut.res = 0 - compare(T, cmpOut.y, cmpOut.x)
       /\ cmpOut.x = cmpOut.y => cmpOut.res = 0
  /\ cmpOut.op = "smaller" => cmpOut.lt = Less(T, cmpOut.x, cmpOut.y)

\* Two different values that < does not order compare 0, and a pair that
\* compares +1 exists for the same type.
C8_Witness ==
  /\ cmpOut.op = "compare"
  /\ cmpOut.x # cmpOut.y
  /\ cmpOut.res = 0
  /\ \E x, y \in Samples(T) : compare(T, x, y) = 1

\* C9: leda_cmp_base called with no function configured reports "compare
\* undefined" to error_handler, calls no function and yields no result; with a
\* function configured it reports nothing and yields that function's result.
C9_CmpBase ==
  cmpOut.op = "cmp_base" =>
    IF cmpfn = Null
      THEN /\ errlog = <<"leda_cmp_base: compare undefined">>
           /\ halted
           /\ cmpOut.called = "none"
           /\ ~cmpOut.has
      ELSE /\ errlog = <<>>
           /\ ~halted
           /\ cmpOut.called = cmpfn
           /\ cmpOut.has
           /\ cmpOut.res = CallFn(cmpfn, T, cmpOut.x, cmpOut.y)

\* The comparator was called with no function configured.
C9_Witness ==
  /\ cmpOut.op = "cmp_base"
  /\ cmpfn = Null
  /\ Len(errlog) = 1

\* C10 as stated: a misuse of a data field is reported to error_handler,
\* which ends the program.
C10_Original == cnt.misuse > 0 => (errlog # <<>> /\ halted)

\* C10 as amended: no lifecycle operation tells a misuse from a use; none
\* reports to error_handler, on a live data field or on a dead one.
C10_Amended == errlog = <<>>

\* A big type was cleared twice, the second clear deleting an object that was
\* deleted before, and the program went on.
C10_Witness ==
  /\ cnt.misuse > 0
  /\ ~IsSmall(T)
  /\ cnt.clear = 2 /\ cnt.free = 2 /\ cnt.alloc = 1
  /\ \E s \in Slots :
       gh[s].st = "cleared" /\ \A t \in Slots \ {s} : gh[t].st = "uninit"
  /\ ~halted

====
